---- MODULE Spec2Model ----
(***************************************************************************)
(* Model of src/claude/types.py: the two dataclasses ClaudeResponse and    *)
(* StreamUpdate and the four accessors of StreamUpdate.                    *)
(*                                                                         *)
(* Python values are tagged records, so that None, False, "", 0, {} and [] *)
(* stay distinct values that merely share falsiness, as in Python.         *)
(***************************************************************************)
EXTENDS Integers, Sequences, FiniteSets, TLC

(***************************************************************************)
(* Bounds                                                                  *)
(***************************************************************************)
\* longest tool_calls list handed to StreamUpdate(...)
MaxCalls == 2
\* number of ClaudeResponse objects constructed in one behaviour
MaxRecords == 3
\* number of list.append calls on tools_used lists in one behaviour
MaxAppends == 2

(***************************************************************************)
(* Python values                                                           *)
(***************************************************************************)
PyNone == [t |-> "none"]
PyBool(b) == [t |-> "bool", b |-> b]
PyStr(s) == [t |-> "str", s |-> s]
PyInt(i) == [t |-> "int", i |-> i]
\* a dict is a record of slots; a slot holding Missing is a key not in the dict
PyDict(d) == [t |-> "dict", d |-> d]
PyList(l) == [t |-> "list", l |-> l]
Missing == [t |-> "missing"]
\* the outcome of a call that ends in an exception
Raise(e) == [t |-> "raise", e |-> e]

IsRaise(v) == v.t = "raise"

\* bool(v): Python's truth value testing
Truthy(v) ==
  CASE v.t = "none" -> FALSE
    [] v.t = "bool" -> v.b
    [] v.t = "str" -> v.s # ""
    [] v.t = "int" -> v.i # 0
    [] v.t = "dict" -> \E k \in DOMAIN v.d : v.d[k] # Missing
    [] v.t = "list" -> Len(v.l) > 0
    [] OTHER -> FALSE

HasKey(d, k) == k \in DOMAIN d.d /\ d.d[k] # Missing

\* d[k]: raises KeyError on a missing key
DictSubscript(d, k, default) ==
  IF HasKey(d, k) THEN d.d[k] ELSE Raise("KeyError")

\* d.get(k, default)
DictGet(d, k, default) ==
  IF HasKey(d, k) THEN d.d[k] ELSE default

(***************************************************************************)
(* StreamUpdate: the values its fields are drawn from                      *)
(***************************************************************************)
KnownTypes ==
  {"assistant", "user", "system", "result", "tool_result", "error", "progress"}

Types == {"assistant", "error", "progress", "custom"}

Contents == {PyNone, PyStr(""), PyStr("fallback")}

ToolCallEntries ==
  { PyDict([name |-> Missing, other |-> PyStr("x")]),
    PyDict([name |-> PyStr(""), other |-> Missing]),
    PyDict([name |-> PyStr("search"), other |-> Missing]),
    PyDict([name |-> PyStr("fetch"), other |-> Missing]) }

SeqUpTo(S, n) == UNION { [1..k -> S] : k \in 0..n }

ToolCalls == {PyNone} \cup { PyList(l) : l \in SeqUpTo(ToolCallEntries, MaxCalls) }

Metadatas ==
  { PyNone,
    PyDict([is_error |-> Missing, other |-> Missing]),
    PyDict([is_error |-> Missing, other |-> PyInt(1)]),
    PyDict([is_error |-> PyBool(TRUE), other |-> Missing]),
    PyDict([is_error |-> PyBool(FALSE), other |-> Missing]) }

ErrorInfos ==
  { PyNone,
    PyDict([message |-> Missing, code |-> Missing]),
    PyDict([message |-> Missing, code |-> PyInt(1)]),
    PyDict([message |-> PyStr("boom"), code |-> Missing]) }

Progresses ==
  { PyNone,
    PyDict([percentage |-> Missing, stage |-> Missing]),
    PyDict([percentage |-> Missing, stage |-> PyStr("x")]),
    PyDict([percentage |-> PyInt(0), stage |-> Missing]),
    PyDict([percentage |-> PyInt(42), stage |-> Missing]) }

Timestamps == {PyNone, PyStr("2024-01-01T00:00:00Z")}
SessionContexts == {PyNone, PyDict([session_id |-> PyStr("s1")])}
ExecutionIds == {PyNone, PyStr("e1")}
ParentMessageIds == {PyNone, PyStr("m1")}

\* every StreamUpdate(...) the dataclass constructor accepts, within the bounds
StreamUpdate ==
  [ type : Types,
    content : Contents,
    tool_calls : ToolCalls,
    metadata : Metadatas,
    timestamp : Timestamps,
    session_context : SessionContexts,
    execution_id : ExecutionIds,
    parent_message_id : ParentMessageIds,
    error_info : ErrorInfos,
    progress : Progresses ]

(***************************************************************************)
(* StreamUpdate: the accessors                                             *)
(***************************************************************************)
\* is_error with any type outside the documented set counted as an error
is_error_closed(self) ==
  IF self.type = "error" \/ self.type \notin KnownTypes THEN PyBool(TRUE)
  ELSE IF ~Truthy(self.metadata) THEN self.metadata
  ELSE DictGet(self.metadata, "is_error", PyBool(FALSE))

\* self.type == "error" or (self.metadata and self.metadata.get("is_error", False))
is_error(self) ==
  IF self.type = "error" THEN PyBool(TRUE)
  ELSE IF ~Truthy(self.metadata) THEN self.metadata
  ELSE DictGet(self.metadata, "is_error", PyBool(FALSE))

get_error_message(self) ==
  IF Truthy(self.error_info) THEN DictGet(self.error_info, "message", PyNone)
  ELSE LET e == is_error(self)
       IN  IF IsRaise(e) THEN e
           ELSE IF Truthy(e) /\ Truthy(self.content) THEN self.content
           ELSE PyNone

\* [call.get("name", "unknown") for call in calls if call.get("name")]
\* yields a list, or the exception that ends the iteration
RECURSIVE tool_names_comprehension(_)
tool_names_comprehension(calls) ==
  IF calls = <<>> THEN PyList(<<>>)
  ELSE LET call == Head(calls)
           cond == DictGet(call, "name", PyNone)
           elem == DictGet(call, "name", PyStr("unknown"))
           rest == tool_names_comprehension(Tail(calls))
       IN  IF IsRaise(cond) THEN cond
           ELSE IF ~Truthy(cond) THEN rest
           ELSE IF IsRaise(elem) THEN elem
           ELSE IF IsRaise(rest) THEN rest
           ELSE PyList(<<elem>> \o rest.l)

\* the comprehension without its `if call.get("name")` filter
RECURSIVE tool_names_unfiltered(_)
tool_names_unfiltered(calls) ==
  IF calls = <<>> THEN <<>>
  ELSE <<DictGet(Head(calls), "name", PyStr("unknown"))>>
         \o tool_names_unfiltered(Tail(calls))

get_tool_names_unfiltered(self) ==
  IF ~Truthy(self.tool_calls) THEN PyList(<<>>)
  ELSE PyList(tool_names_unfiltered(self.tool_calls.l))

get_tool_names(self) ==
  IF ~Truthy(self.tool_calls) THEN PyList(<<>>)
  ELSE tool_names_comprehension(self.tool_calls.l)

\* get_progress_percentage that tests the percentage for truth before returning it
get_progress_percentage_truthy(self) ==
  IF Truthy(self.progress)
     /\ Truthy(DictGet(self.progress, "percentage", PyNone))
  THEN DictGet(self.progress, "percentage", PyNone)
  ELSE PyNone

get_progress_percentage(self) ==
  IF Truthy(self.progress) THEN DictGet(self.progress, "percentage", PyNone)
  ELSE PyNone

(***************************************************************************)
(* State                                                                   *)
(***************************************************************************)
VARIABLES
  su,        \* the StreamUpdate instance under observation
  ret,       \* the last accessor call on su and what it returned
  recs,      \* the ClaudeResponse instances constructed so far
  heap,      \* the list objects, by identity (index), with their contents
  appended   \* per ClaudeResponse, the number of appends made through it

vars == <<su, ret, recs, heap, appended>>
streamVars == <<su, ret>>
respVars == <<recs, heap, appended>>

NoCall == [op |-> "none", val |-> PyNone]

(***************************************************************************)
(* StreamUpdate: one action per accessor call.  The accessors only read    *)
(* self, so the instance is the same after the call.                       *)
(***************************************************************************)
Call_is_error ==
  /\ ret' = [op |-> "is_error", val |-> is_error(su)]
  /\ su' = su
  /\ UNCHANGED respVars

Call_get_error_message ==
  /\ ret' = [op |-> "get_error_message", val |-> get_error_message(su)]
  /\ su' = su
  /\ UNCHANGED respVars

\* a get_tool_names that drains self.tool_calls while collecting the names
Call_get_tool_names_draining ==
  /\ ret' = [op |-> "get_tool_names", val |-> get_tool_names(su)]
  /\ su' = [su EXCEPT !.tool_calls =
                        IF Truthy(su.tool_calls) THEN PyList(<<>>) ELSE @]
  /\ UNCHANGED respVars

Call_get_tool_names ==
  /\ ret' = [op |-> "get_tool_names", val |-> get_tool_names(su)]
  /\ su' = su
  /\ UNCHANGED respVars

Call_get_progress_percentage ==
  /\ ret' = [op |-> "get_progress_percentage",
             val |-> get_progress_percentage(su)]
  /\ su' = su
  /\ UNCHANGED respVars

(***************************************************************************)
(* ClaudeResponse                                                          *)
(***************************************************************************)
\* the five required constructor arguments
RequiredArgs ==
  [ content : {PyStr("done")},
    session_id : {PyStr("s1")},
    cost : {PyInt(0)},
    duration_ms : {PyInt(120)},
    num_turns : {PyInt(1)} ]

ToolRecord == PyDict([name |-> PyStr("search")])

\* the keyword arguments; Missing is an argument the caller leaves out
OptionalArgs ==
  [ is_error : {Missing, PyBool(FALSE), PyBool(TRUE)},
    error_type : {Missing, PyStr("timeout")},
    tools_used : {Missing, PyList(<<ToolRecord>>)} ]

is_error_default == PyBool(FALSE)

\* a default that classifies every response
error_type_default_unknown == PyStr("unknown")

error_type_default == PyNone

\* one list object shared by every instance, as a mutable default would be
default_factory_shared(h) == IF h = <<>> THEN Len(h) + 1 ELSE 1

\* field(default_factory=list): list() is called per instance and returns a
\* new list object; objects are identified by their index in the heap
default_factory_list(h) == Len(h) + 1

Given(opt) == { f \in DOMAIN opt : opt[f] # Missing }

\* ClaudeResponse(content, session_id, cost, duration_ms, num_turns, **opt)
Construct ==
  /\ Len(recs) < MaxRecords
  /\ \E req \in RequiredArgs, opt \in OptionalArgs :
       LET id == IF opt.tools_used = Missing
                 THEN default_factory_list(heap)
                 ELSE Len(heap) + 1
           new == [ content |-> req.content,
                    session_id |-> req.session_id,
                    cost |-> req.cost,
                    duration_ms |-> req.duration_ms,
                    num_turns |-> req.num_turns,
                    is_error |-> IF opt.is_error = Missing
                                 THEN is_error_default ELSE opt.is_error,
                    error_type |-> IF opt.error_type = Missing
                                   THEN error_type_default ELSE opt.error_type,
                    tools_used |-> id,
                    given |-> Given(opt) ]
       IN  /\ recs' = Append(recs, new)
           /\ heap' = IF id > Len(heap)
                      THEN Append(heap, IF opt.tools_used = Missing
                                        THEN <<>> ELSE opt.tools_used.l)
                      ELSE heap
           /\ appended' = Append(appended, 0)
  /\ UNCHANGED streamVars

TotalAppended == LET RECURSIVE Sum(_)
                     Sum(q) == IF q = <<>> THEN 0 ELSE Head(q) + Sum(Tail(q))
                 IN  Sum(appended)

\* response.tools_used.append(tool) on the r-th constructed response
AppendTool ==
  /\ TotalAppended < MaxAppends
  /\ \E r \in 1..Len(recs) :
       /\ heap' = [heap EXCEPT ![recs[r].tools_used] = Append(@, ToolRecord)]
       /\ appended' = [appended EXCEPT ![r] = @ + 1]
  /\ UNCHANGED <<recs, su, ret>>

(***************************************************************************)
(* Specifications                                                          *)
(***************************************************************************)
Init ==
  /\ su \in StreamUpdate
  /\ ret = NoCall
  /\ recs = <<>>
  /\ heap = <<>>
  /\ appended = <<>>

Next ==
  \/ Call_is_error
  \/ Call_get_error_message
  \/ Call_get_tool_names
  \/ Call_get_progress_percentage

Spec == Init /\ [][Next]_vars

\* StreamUpdate(type="assistant")
PlainUpdate ==
  [ type |-> "assistant", content |-> PyNone, tool_calls |-> PyNone,
    metadata |-> PyNone, timestamp |-> PyNone, session_context |-> PyNone,
    execution_id |-> PyNone, parent_message_id |-> PyNone,
    error_info |-> PyNone, progress |-> PyNone ]

InitResp ==
  /\ su = PlainUpdate
  /\ ret = NoCall
  /\ recs = <<>>
  /\ heap = <<>>
  /\ appended = <<>>

NextResp ==
  \/ Construct
  \/ AppendTool

SpecResp == InitResp /\ [][NextResp]_vars

(***************************************************************************)
(* Properties                                                              *)
(***************************************************************************)
\* "present" in the sense of Optional[...]: the field is not None
Present(v) == v # PyNone

\* the `message` entry of error_info, None when the key is not there
MessageOf(info) == IF HasKey(info, "message") THEN info.d.message ELSE PyNone

\* type is "error", or metadata is present and its is_error entry is True
ErrorCondition(s) ==
  \/ s.type = "error"
  \/ /\ Present(s.metadata)
     /\ HasKey(s.metadata, "is_error")
     /\ s.metadata.d.is_error = PyBool(TRUE)

\* C1: whenever error_info is present, get_error_message() returns exactly
\* error_info's `message` entry, None when the key is missing, and never
\* falls through to content, also when error_info has no entries at all.
C1_ErrorInfoWins ==
  (ret.op = "get_error_message" /\ Present(su.error_info))
    => ret.val = MessageOf(su.error_info)

\* C2: is_error() returns the boolean True exactly when type is "error" or
\* metadata is present with is_error True, and the boolean False in every
\* other case; no other field matters.
C2_IsErrorBoolean ==
  ret.op = "is_error" => ret.val = PyBool(ErrorCondition(su))

\* C3: with error_info absent, get_error_message() returns content exactly
\* when is_error() is true and content is present (the empty string
\* included), and None otherwise.
C3_ContentFallback ==
  (ret.op = "get_error_message" /\ ~Present(su.error_info))
    => ret.val = IF ErrorCondition(su) /\ Present(su.content)
                 THEN su.content ELSE PyNone

UsableName(call) == HasKey(call, "name") /\ call.d.name # PyStr("")

NamesOf(calls) ==
  LET usable == SelectSeq(calls, UsableName)
  IN  [i \in 1..Len(usable) |-> usable[i].d.name]

\* C4: get_tool_names() returns [] when tool_calls is absent, and otherwise
\* the names of the entries whose name is present and non-empty, in the
\* order of tool_calls; "unknown" is never emitted and the result is never
\* longer than tool_calls.
C4_ToolNames ==
  ret.op = "get_tool_names" =>
    /\ ret.val = PyList(IF Present(su.tool_calls)
                        THEN NamesOf(su.tool_calls.l) ELSE <<>>)
    /\ \A i \in 1..Len(ret.val.l) : ret.val.l[i] # PyStr("unknown")
    /\ Present(su.tool_calls) => Len(ret.val.l) <= Len(su.tool_calls.l)

\* a nameless and an empty-named entry were skipped, the named one kept
C4_Witness ==
  /\ ret.op = "get_tool_names"
  /\ Present(su.tool_calls)
  /\ Len(su.tool_calls.l) = 2
  /\ ~HasKey(su.tool_calls.l[1], "name")
  /\ ret.val = PyList(<<PyStr("fetch")>>)

\* C5: get_progress_percentage() returns progress's `percentage` entry when
\* progress is present and has it (0 included), None when progress lacks
\* the key or is absent; the type of the update does not matter.
C5_ProgressPercentage ==
  ret.op = "get_progress_percentage" =>
    ret.val = IF Present(su.progress) /\ HasKey(su.progress, "percentage")
              THEN su.progress.d.percentage ELSE PyNone

\* a non-progress update reports the percentage 0 it carries
C5_Witness ==
  /\ ret.op = "get_progress_percentage"
  /\ su.type = "assistant"
  /\ Present(su.progress)
  /\ ret.val = PyInt(0)

\* C6: for every combination of present and absent optional fields and of
\* missing keys, each accessor completes with a value or None and never
\* ends in an exception.
C6_NoException ==
  /\ ret.op # "none" => ~IsRaise(ret.val)
  /\ ~IsRaise(is_error(su))
  /\ ~IsRaise(get_error_message(su))
  /\ ~IsRaise(get_tool_names(su))
  /\ ~IsRaise(get_progress_percentage(su))

\* an accessor has returned None for a dict that lacks the key it reads
C6_Witness ==
  /\ ret.op = "get_error_message"
  /\ Present(su.error_info)
  /\ Truthy(su.error_info)
  /\ ~HasKey(su.error_info, "message")
  /\ Present(su.metadata)
  /\ Truthy(su.metadata)
  /\ ~HasKey(su.metadata, "is_error")
  /\ ret.val = PyNone

NotErrorTyped(r) == r.is_error = PyBool(FALSE) => r.error_type = PyNone

\* C7 as stated: every constructed ClaudeResponse with is_error False has
\* error_type None.
C7_ErrorTypeOnlyWithError ==
  \A r \in 1..Len(recs) : NotErrorTyped(recs[r])

\* C7: every ClaudeResponse constructed without an error_type argument has
\* error_type None; one constructed from the five required arguments alone
\* has is_error False, error_type None and an empty tools_used.
C7_Defaults ==
  \A r \in 1..Len(recs) :
    /\ "error_type" \notin recs[r].given => recs[r].error_type = PyNone
    /\ recs[r].given = {} =>
         /\ recs[r].is_error = PyBool(FALSE)
         /\ recs[r].error_type = PyNone
         /\ appended[r] = 0 => heap[recs[r].tools_used] = <<>>

\* a response built from the required arguments alone, next to one built
\* with is_error=False and an explicit error_type
C7_Witness ==
  \E r1, r2 \in 1..Len(recs) :
    /\ recs[r1].given = {}
    /\ recs[r1].error_type = PyNone
    /\ recs[r2].is_error = PyBool(FALSE)
    /\ "error_type" \in recs[r2].given

\* C8: an accessor call leaves every field of the StreamUpdate as it was,
\* and calling the same accessor again returns the same result.
C8_ReadOnly ==
  [][ /\ su' = su
      /\ (ret.op = ret'.op => ret'.val = ret.val) ]_vars

\* get_tool_names has run on an update that carries tool calls
C8_Witness ==
  /\ ret.op = "get_tool_names"
  /\ Truthy(su.tool_calls)
  /\ Present(su.timestamp)
  /\ Present(su.session_context)

Retyped(s, t) == [s EXCEPT !.type = t]

\* C9: a type outside the documented set is accepted, and two updates that
\* differ only in type, neither being "error", get the same result from
\* every accessor.
C9_UnknownTypeOpaque ==
  \A t \in Types \ {"error"} :
    su.type # "error" =>
      /\ ret.op = "is_error" => ret.val = is_error(Retyped(su, t))
      /\ ret.op = "get_error_message" =>
           ret.val = get_error_message(Retyped(su, t))
      /\ ret.op = "get_tool_names" => ret.val = get_tool_names(Retyped(su, t))
      /\ ret.op = "get_progress_percentage" =>
           ret.val = get_progress_percentage(Retyped(su, t))

\* is_error() has answered False on an update of an undocumented type
C9_Witness ==
  /\ su.type \notin KnownTypes
  /\ ret.op = "is_error"
  /\ ret.val = PyBool(FALSE)

DefaultTools(r) == "tools_used" \notin recs[r].given

\* C10: a ClaudeResponse constructed without tools_used owns a list of its
\* own: it holds exactly what was appended through that response, so it is
\* empty until then, and no other response refers to the same list.
C10_FreshDefaultList ==
  \A r \in 1..Len(recs) :
    DefaultTools(r) =>
      /\ Len(heap[recs[r].tools_used]) = appended[r]
      /\ \A q \in 1..Len(recs) :
           q # r => recs[q].tools_used # recs[r].tools_used

\* appends went to one default-constructed response while an earlier and a
\* later default-constructed response stay empty
C10_Witness ==
  \E r1, r2, r3 \in 1..Len(recs) :
    /\ r1 < r2 /\ r2 < r3
    /\ DefaultTools(r1) /\ DefaultTools(r2) /\ DefaultTools(r3)
    /\ appended[r2] = MaxAppends
    /\ heap[recs[r1].tools_used] = <<>>
    /\ heap[recs[r3].tools_used] = <<>>

====
